---- MODULE Spec2Model ----
(***************************************************************************)
(* Model of the sludge units of QSDsan:                                    *)
(*   SludgeSeparator  (qsdsan/sanunits/_sludge_handling.py, lines 223-348) *)
(*   SludgeHandling   (qsdsan/sanunits/_sludge_handling.py, lines 32-112)  *)
(*                                                                         *)
(* Numbers.  Fractions (split, settled_frac) are k/D for k in 0..D and are *)
(* stored as the numerator k.  Component masses are integers that are      *)
(* multiples of D, so that fraction * mass is an exact integer.  Intensive *)
(* oxygen demand (COD) values are exact rationals [k, n, d].               *)
(***************************************************************************)
EXTENDS Integers, Sequences, FiniteSets, TLC

\* ------------------------------------------------------------------ bounds
\* denominator of the fraction grid: fractions are 0/D, 1/D, ..., D/D
D == 2
\* influent component masses are 0, D, ..., MaxMass*D
MaxMass == 1
\* number of entries of a mapping split
MaxKeys == 1
\* number of _run calls in one behaviour
MaxRuns == 2
\* number of changes of the configuration or of the influent between the runs
MaxChanges == 1

\* ------------------------------------------------------------ components
Water == "H2O"
Comps == {"H2O", "OtherSS", "NH3", "NonNH3"}
NonWater == Comps \ {Water}
Categories == {"TS", "COD", "N"}
\* keys a caller may put in a mapping split; "Zz" is no category and no component
KeyPool == {"TS", "COD", "N", "NH3", "Zz"}

Fracs == 0..D
MassGrid == {i * D : i \in 0..MaxMass}
ZeroMass == [c \in Comps |-> 0]

\* fraction k/D of the mass m
FracOf(k, m) == (k * m) \div D

RECURSIVE SumOver(_, _)
SumOver(m, S) ==
  IF S = {} THEN 0
  ELSE LET c == CHOOSE x \in S : TRUE IN m[c] + SumOver(m, S \ {c})

\* Stream.F_mass: the total mass flow of a stream
F_mass(m) == SumOver(m, Comps)
\* Stream.F_vol: the volumetric flow, every component taken at unit density
F_vol(m) == F_mass(m)

\* -------------------------------------------------------------- rationals
RECURSIVE GCD(_, _)
GCD(a, b) == IF b = 0 THEN a ELSE GCD(b, a % b)
Abs(x) == IF x < 0 THEN -x ELSE x

\* None, and the non-finite float (inf or nan) a division by 0.0 can leave
NoneV == [k |-> "none", n |-> 0, d |-> 1]
NonFinite == [k |-> "nonfinite", n |-> 0, d |-> 1]
Rat(n, d) ==
  LET g == GCD(Abs(n), Abs(d))
      s == IF d < 0 THEN -1 ELSE 1
  IN [k |-> "num", n |-> (s * n) \div g, d |-> (s * d) \div g]
RInt(i) == Rat(i, 1)
RMul(a, b) ==
  IF a.k = "num" /\ b.k = "num" THEN Rat(a.n * b.n, a.d * b.d) ELSE NonFinite
RSub(a, b) ==
  IF a.k = "num" /\ b.k = "num"
    THEN Rat(a.n * b.d - b.n * a.d, a.d * b.d) ELSE NonFinite

\* Python truth value of None / a number
Truthy(v) == v.k = "nonfinite" \/ (v.k = "num" /\ v.n # 0)
\* Python's `a or b`
PyOr(a, b) == IF Truthy(a) THEN a ELSE b

\* ------------------------------------------------- values a caller passes
\* A Python value handed to the unit: a number k/D, a string (its characters),
\* a dict (its items in insertion order), None, or a list.
Val(kind, num, chars, items) ==
  [kind |-> kind, num |-> num, chars |-> chars, items |-> items]
NumVal(k) == Val("num", k, <<>>, <<>>)
StrVal(cs) == Val("str", 0, cs, <<>>)
DictVal(it) == Val("dict", 0, <<>>, it)
NoneVal == Val("none", 0, <<>>, <<>>)
\* a non-empty list
ListVal == Val("list", 0, <<>>, <<>>)
\* the attribute _split before any assignment
Unset == Val("unset", 0, <<>>, <<>>)

DigitVal == [c \in {"0", "1"} |-> IF c = "0" THEN 0 ELSE 1]
IsDigit(c) == c \in DOMAIN DigitVal

RECURSIVE Strip(_)
Strip(cs) ==
  IF cs # <<>> /\ Head(cs) = " " THEN Strip(Tail(cs))
  ELSE IF cs # <<>> /\ cs[Len(cs)] = " " THEN Strip(SubSeq(cs, 1, Len(cs) - 1))
  ELSE cs

RECURSIVE DecVal(_)
DecVal(cs) ==
  IF cs = <<>> THEN 0
  ELSE 10 * DecVal(SubSeq(cs, 1, Len(cs) - 1)) + DigitVal[cs[Len(cs)]]

RECURSIVE Pow10(_)
Pow10(n) == IF n = 0 THEN 1 ELSE 10 * Pow10(n - 1)

\* float(str): surrounding blanks are dropped, then digits with at most one
\* point; the result is the numerator over D.  ok = FALSE is ValueError.
ParseFloat(cs) ==
  LET t == Strip(cs)
      dots == {i \in 1..Len(t) : t[i] = "."}
      p == IF dots = {} THEN Len(t) + 1 ELSE CHOOSE i \in dots : TRUE
      ip == SubSeq(t, 1, p - 1)
      fp == SubSeq(t, p + 1, Len(t))
      ok == /\ Cardinality(dots) <= 1
            /\ \A i \in 1..Len(t) : i \in dots \/ IsDigit(t[i])
            /\ Len(ip) + Len(fp) >= 1
  IN IF ok
       THEN [ok |-> TRUE,
             num |-> DecVal(ip) * D + (DecVal(fp) * D) \div Pow10(Len(fp))]
       ELSE [ok |-> FALSE, num |-> 0]

\* float(i): ok = FALSE stands for the TypeError / ValueError float() raises
ToFloat(i) ==
  IF i.kind = "num" THEN [ok |-> TRUE, num |-> i.num]
  ELSE IF i.kind = "str" THEN ParseFloat(i.chars)
  ELSE [ok |-> FALSE, num |-> 0]

\* bool(i) of a value
ValTruthy(i) ==
  \/ i.kind = "num" /\ i.num # 0
  \/ i.kind = "str" /\ i.chars # <<>>
  \/ i.kind = "dict" /\ i.items # <<>>
  \/ i.kind = "list"

\* the setter with the tag written before the conversion is tried
SplitSetter_TagFirst(cur, i) ==
  LET f == ToFloat(i) IN
  IF f.ok
    THEN [split |-> NumVal(f.num), split_type |-> "float", err |-> "none"]
  ELSE IF i.kind = "dict"
    THEN [split |-> i, split_type |-> "dict", err |-> "none"]
  ELSE [split |-> cur.split, split_type |-> "float", err |-> "TypeError"]

\* SludgeSeparator.split (setter): the attributes after `self.split = i`
\* from the attributes cur = [split, split_type]; err names what is raised.
SplitSetter(cur, i) ==
  LET f == ToFloat(i) IN
  IF f.ok
    THEN [split |-> NumVal(f.num), split_type |-> "float", err |-> "none"]
  ELSE IF i.kind = "dict"
    THEN [split |-> i, split_type |-> "dict", err |-> "none"]
  ELSE [split |-> cur.split, split_type |-> cur.split_type, err |-> "TypeError"]

\* ----------------------------------------------------- default parameters
\* data.loc['split']['expected'] read through dct_from_str
DefaultSplit == DictVal(<<[key |-> "TS", frac |-> D]>>)
\* float(data.loc['settled_frac']['expected']), as a numerator over D
DefaultSettledFrac == 1

\* the mappings a caller may pass: up to MaxKeys items with distinct keys
Items == [key : KeyPool, frac : Fracs]
DictItems ==
  {s \in UNION {[1..n -> Items] : n \in 0..MaxKeys} :
     \A i, j \in 1..Len(s) : i # j => s[i].key # s[j].key}
StrInputs == {<<"1">>, <<"0", ".", "0">>, <<" ", "1", ".">>, <<"x">>, <<>>}
SplitInputs ==
  {NumVal(k) : k \in Fracs} \cup {StrVal(cs) : cs \in StrInputs}
    \cup {DictVal(it) : it \in DictItems} \cup {NoneVal, ListVal}
SettledInputs == {NumVal(k) : k \in Fracs} \cup {NoneVal}

\* ------------------------------------------------- SludgeSeparator._run
\* Decay.allocate_N_removal(tot_red, preferred_N): the removal is taken from
\* the preferred species first and the rest from the other one;
\* <<removal of the preferred species, removal of the other species>>
allocate_N_removal(tot_red, preferred_N) ==
  IF ~(preferred_N > 0) THEN <<0, tot_red>>
  ELSE IF preferred_N > tot_red THEN <<tot_red, 0>>
  ELSE <<preferred_N, tot_red - preferred_N>>

\* WasteStream.COD when no value is stored: the composite of the components,
\* the oxygen demand of OtherSS per volume
DerivedCOD(m) ==
  IF F_vol(m) = 0 THEN NonFinite ELSE Rat(m["OtherSS"], F_vol(m))

\* `_COD = waste._COD or waste.COD`
InfluentCOD(m, stored) == PyOr(stored, DerivedCOD(m))

\* the retained nitrogen taken from the ammoniacal nitrogen alone
N_sol_NH3Only(f, m) == FracOf(f, m["NH3"])

\* `split[var] * (waste.imass['NH3'] + waste.imass['NonNH3'])`
N_sol(f, m) == FracOf(f, m["NH3"] + m["NonNH3"])

\* the loop body with a key that is no component passed over in silence
ApplyRule_SkipUnknown(it, waste, wcod, loc) ==
  LET var == it.key
      f == it.frac
  IN
  IF var = "TS" THEN
    [loc EXCEPT !.sol = [@ EXCEPT !["OtherSS"] = FracOf(f, waste["OtherSS"])]]
  ELSE IF var = "COD" THEN
    LET cod == InfluentCOD(waste, wcod)
        load == RMul(cod, RInt(F_vol(waste)))
        s_cod == RMul(Rat(f, D), load)
    IN [loc EXCEPT !.sol_COD = s_cod, !.liq_COD = RSub(load, s_cod)]
  ELSE IF var = "N" THEN
    LET rmd == allocate_N_removal(N_sol(f, waste), waste["NonNH3"])
    IN [loc EXCEPT !.sol = [@ EXCEPT !["NonNH3"] = rmd[1], !["NH3"] = rmd[2]]]
  ELSE IF var \in Comps THEN
    [loc EXCEPT !.sol = [@ EXCEPT ![var] = FracOf(f, waste[var])]]
  ELSE loc

\* One pass of the loop `for var in self.split.keys()` over item it, on the
\* locals loc = [sol, sol_COD, liq_COD, err]
ApplyRule(it, waste, wcod, loc) ==
  LET var == it.key
      f == it.frac
  IN
  IF var = "TS" THEN
    [loc EXCEPT !.sol = [@ EXCEPT !["OtherSS"] = FracOf(f, waste["OtherSS"])]]
  ELSE IF var = "COD" THEN
    LET cod == InfluentCOD(waste, wcod)
        load == RMul(cod, RInt(F_vol(waste)))
        s_cod == RMul(Rat(f, D), load)
    IN [loc EXCEPT !.sol_COD = s_cod, !.liq_COD = RSub(load, s_cod)]
  ELSE IF var = "N" THEN
    LET rmd == allocate_N_removal(N_sol(f, waste), waste["NonNH3"])
    IN [loc EXCEPT !.sol = [@ EXCEPT !["NonNH3"] = rmd[1], !["NH3"] = rmd[2]]]
  ELSE IF var \in Comps THEN
    [loc EXCEPT !.sol = [@ EXCEPT ![var] = FracOf(f, waste[var])]]
  ELSE [loc EXCEPT !.err = "UndefinedChemical"]

\* the loop: the items in insertion order, left at the first one that raises
RECURSIVE ApplyRules(_, _, _, _)
ApplyRules(items, waste, wcod, loc) ==
  IF items = <<>> \/ loc.err # "none" THEN loc
  ELSE ApplyRules(Tail(items), waste, wcod, ApplyRule(Head(items), waste, wcod, loc))

\* the branch `self._split_type == 'float'`: both outlets are copies of the
\* influent (flows and stored COD), then sol.mass *= split; liq.mass -= sol.mass
ScalarSplit(waste, k) ==
  LET sol == [c \in Comps |-> FracOf(k, waste[c])]
  IN [sol |-> sol, liq |-> [c \in Comps |-> waste[c] - sol[c]]]

\* the effluent left a copy of the influent
LiquidMass_Copy(waste, sol) == waste

\* `liq.mass = waste.mass - sol.mass`
LiquidMass(waste, sol) == [c \in Comps |-> waste[c] - sol[c]]

\* the reconciliation without the first `sol.imass['H2O'] = 0`
AdjustSolidWater_NoReset(influent, liq, sol, settled) ==
  LET w == FracOf(settled, F_mass(influent)) - F_mass(sol)
      neg == w < 0
      sol1 == [sol EXCEPT ![Water] = IF neg THEN 0 ELSE w]
  IN [sol |-> sol1,
      liq |-> [liq EXCEPT ![Water] = influent[Water] - sol1[Water]],
      warned |-> neg]

\* SludgeSeparator._adjust_solid_water
AdjustSolidWater(influent, liq, sol, settled) ==
  LET sol0 == [sol EXCEPT ![Water] = 0]
      w == FracOf(settled, F_mass(influent)) - F_mass(sol0)
      neg == w < 0
      sol1 == [sol0 EXCEPT ![Water] = IF neg THEN 0 ELSE w]
  IN [sol |-> sol1,
      liq |-> [liq EXCEPT ![Water] = influent[Water] - sol1[Water]],
      warned |-> neg]

\* `x._COD if not x_COD else x_COD / x.F_vol`; zd is what a division by a zero
\* flow does: "raise" (ZeroDivisionError) or "nonfinite" (inf / nan)
IntensiveCOD(old, load, vol, zd) ==
  IF ~Truthy(load) THEN [v |-> old, err |-> "none"]
  ELSE IF vol = 0 THEN
    (IF zd = "raise" THEN [v |-> old, err |-> "ZeroDivisionError"]
     ELSE [v |-> NonFinite, err |-> "none"])
  ELSE IF load.k = "num" THEN [v |-> Rat(load.n, load.d * vol), err |-> "none"]
  ELSE [v |-> NonFinite, err |-> "none"]

\* `split or dct_from_str(data.loc['split']['expected'])`
CtorSplit(a) == IF ValTruthy(a) THEN a ELSE DefaultSplit
\* `settled_frac or float(data.loc['settled_frac']['expected'])`
CtorSettledFrac(b) == IF ValTruthy(b) THEN b.num ELSE DefaultSettledFrac

\* ------------------------------------------------------------------ state
VARIABLES
  pc,            \* "new": no unit yet; "ready": the SludgeSeparator exists
  split,         \* SludgeSeparator._split
  split_type,    \* SludgeSeparator._split_type
  settled_frac,  \* SludgeSeparator._settled_frac, numerator over D
  wasteMass,     \* ins[0].mass
  wasteCOD,      \* ins[0]._COD
  liqMass,       \* outs[0].mass
  liqCOD,        \* outs[0]._COD
  solMass,       \* outs[1].mass
  solCOD,        \* outs[1]._COD
  err,           \* what the last operation raised, "none" if it returned
  warned,        \* the last _run emitted the negative-water warning
  runs,          \* number of _run calls so far
  lastOp,        \* the last operation
  changes,       \* number of changes made so far
  sh             \* the SludgeHandling unit, its streams and its solver

sepVars == <<pc, split, split_type, settled_frac, wasteMass, wasteCOD, liqMass,
             liqCOD, solMass, solCOD, err, warned, runs, lastOp, changes>>
vars == <<sepVars, sh>>

Influents == [Comps -> MassGrid]
CODInputs == {NoneV, RInt(1)}

\* the separator before its construction, beside an influent stream
InitSeparator ==
  /\ pc = "new"
  /\ split = Unset
  /\ split_type = "unset"
  /\ settled_frac = 0
  /\ wasteMass \in Influents
  /\ wasteCOD \in CODInputs
  /\ liqMass = ZeroMass
  /\ liqCOD = NoneV
  /\ solMass = ZeroMass
  /\ solCOD = NoneV
  /\ err = "none"
  /\ warned = FALSE
  /\ runs = 0
  /\ lastOp = "init"
  /\ changes = 0

\* SludgeSeparator.__init__(split=a, settled_frac=b)
Construct(a, b) ==
  /\ pc = "new"
  /\ LET r == SplitSetter([split |-> Unset, split_type |-> "unset"], CtorSplit(a))
     IN /\ split' = r.split
        /\ split_type' = r.split_type
        /\ err' = r.err
        /\ pc' = IF r.err = "none" THEN "ready" ELSE "new"
        /\ settled_frac' = IF r.err = "none" THEN CtorSettledFrac(b) ELSE settled_frac
  /\ lastOp' = "construct"
  /\ changes' = changes
  /\ UNCHANGED <<wasteMass, wasteCOD, liqMass, liqCOD, solMass, solCOD, warned, runs>>
  /\ UNCHANGED sh

\* unit.split = i
SetSplit(i) ==
  /\ pc = "ready"
  /\ LET r == SplitSetter([split |-> split, split_type |-> split_type], i)
     IN /\ split' = r.split
        /\ split_type' = r.split_type
        /\ err' = r.err
  /\ lastOp' = "set_split"
  /\ changes < MaxChanges /\ changes' = changes + 1
  /\ UNCHANGED <<pc, settled_frac, wasteMass, wasteCOD, liqMass, liqCOD, solMass,
                 solCOD, warned, runs>>
  /\ UNCHANGED sh

\* unit.settled_frac = k/D
SetSettledFrac(k) ==
  /\ pc = "ready"
  /\ settled_frac' = k
  /\ err' = "none"
  /\ lastOp' = "set_settled"
  /\ changes < MaxChanges /\ changes' = changes + 1
  /\ UNCHANGED <<pc, split, split_type, wasteMass, wasteCOD, liqMass, liqCOD,
                 solMass, solCOD, warned, runs>>
  /\ UNCHANGED sh

\* the upstream unit changes the flow of one component of the influent, or
\* its stored COD, between two runs
SetInfluent(m, cod) ==
  /\ pc = "ready"
  /\ runs > 0
  /\ Cardinality({c \in Comps : m[c] # wasteMass[c]}) + (IF cod # wasteCOD THEN 1 ELSE 0) = 1
  /\ wasteMass' = m
  /\ wasteCOD' = cod
  /\ err' = "none"
  /\ lastOp' = "influent"
  /\ changes < MaxChanges /\ changes' = changes + 1
  /\ UNCHANGED <<pc, split, split_type, settled_frac, liqMass, liqCOD, solMass,
                 solCOD, warned, runs>>
  /\ UNCHANGED sh

\* SludgeSeparator._run, from the retention split to the stored COD values
RunResult(zd) ==
  LET loc0 == [sol |-> solMass, sol_COD |-> NoneV, liq_COD |-> NoneV, err |-> "none"]
      isFloat == split_type = "float"
      sc == ScalarSplit(wasteMass, split.num)
      loc == IF isFloat THEN [loc0 EXCEPT !.sol = sc.sol]
             ELSE ApplyRules(split.items, wasteMass, wasteCOD, loc0)
      liq0 == IF isFloat THEN sc.liq ELSE LiquidMass(wasteMass, loc.sol)
      adj == AdjustSolidWater(wasteMass, liq0, loc.sol, settled_frac)
      solCOD0 == IF isFloat THEN wasteCOD ELSE solCOD
      liqCOD0 == IF isFloat THEN wasteCOD ELSE liqCOD
      sC == IntensiveCOD(solCOD0, loc.sol_COD, F_vol(adj.sol), zd)
      lC == IntensiveCOD(liqCOD0, loc.liq_COD, F_vol(adj.liq), zd)
  IN
  IF loc.err # "none" THEN
    \* raised inside the loop: only the retentate masses set so far changed
    [sol |-> loc.sol, liq |-> liqMass, solCOD |-> solCOD, liqCOD |-> liqCOD,
     warned |-> FALSE, err |-> loc.err]
  ELSE IF sC.err # "none" THEN
    [sol |-> adj.sol, liq |-> adj.liq, solCOD |-> solCOD0, liqCOD |-> liqCOD0,
     warned |-> adj.warned, err |-> sC.err]
  ELSE
    [sol |-> adj.sol, liq |-> adj.liq, solCOD |-> sC.v,
     liqCOD |-> IF lC.err = "none" THEN lC.v ELSE liqCOD0,
     warned |-> adj.warned, err |-> lC.err]

Run(zd) ==
  /\ pc = "ready"
  /\ runs < MaxRuns
  /\ \E r \in {RunResult(zd)} :
        /\ solMass' = r.sol
        /\ liqMass' = r.liq
        /\ solCOD' = r.solCOD
        /\ liqCOD' = r.liqCOD
        /\ warned' = r.warned
        /\ err' = r.err
  /\ runs' = runs + 1
  /\ lastOp' = "run"
  /\ changes' = changes
  /\ UNCHANGED <<pc, split, split_type, settled_frac, wasteMass, wasteCOD>>
  /\ UNCHANGED sh

\* ------------------------------------------------------- SludgeHandling
\* bounds of the split grid: a split is x/G for x in 0..G, and Eps/G stands
\* for the 1e-3 of the bracket [1e-3, 1 - 1e-3]
G == 8
Eps == 2
\* influent component masses of the SludgeHandling unit are 0, G, ..., SHMaxMass*G
SHMaxMass == 1

SHComps == {"Water", "Salt", "Grit"}
\* `self.solids = solids or cmps.solids`
Solids == {"Grit"}
\* `self.solubles = tuple([i.ID for i in cmps if i.ID not in self.solids])`
Solubles == SHComps \ Solids
SHZero == [c \in SHComps |-> 0]
SHMassGrid == {i * G : i \in 0..SHMaxMass}
SHStreams == [SHComps -> SHMassGrid]
SHTemps == {298, 310}

\* the bracket handed to the solver: x0=1e-3, x1=1.-1e-3
X0 == Eps
X1 == G - Eps

SH_F_mass(m) == m["Water"] + m["Salt"] + m["Grit"]
\* the mass of the solids of a stream
SolidsMass(m) == m["Grit"]

\* Stream.mix_from: the sum of the inlet flows
MixFrom(ins) == [c \in SHComps |-> ins[1][c] + ins[2][c]]

\* Stream.copy_flow(other, IDs): the flows of IDs are copied, the rest kept
CopyFlow(self, other, IDs) == [c \in SHComps |-> IF c \in IDs THEN other[c] ELSE self[c]]
\* ... with remove=True: what is left in `other`
RemoveFlow(other, IDs) == [c \in SHComps |-> IF c \in IDs THEN 0 ELSE other[c]]

\* SludgeHandling._mc_at_split: the outlet flows at split x/G and the sign of
\* the returned mc - target_mc (target = [n, d] is the fraction n/d)
MCSplitEff(x, mixed, eff) ==
  [c \in SHComps |-> IF c \in Solubles THEN (mixed[c] * x) \div G ELSE eff[c]]
\* a variant that hands the sludge the whole of the solubles
MCSplitSludge_Whole(mixed, eff1, sludge) ==
  [c \in SHComps |-> IF c \in Solubles THEN mixed[c] ELSE sludge[c]]
MCSplitSludge(mixed, eff1, sludge) ==
  [c \in SHComps |-> IF c \in Solubles THEN mixed[c] - eff1[c] ELSE sludge[c]]
Sign(v) == IF v > 0 THEN 1 ELSE IF v < 0 THEN -1 ELSE 0
MCResidual(sludge, target) ==
  Sign(sludge["Water"] * target.d - target.n * SH_F_mass(sludge))
\* a variant that leaves the solubles of the sludge where they were
_mc_at_split_StaleSludge(x, mixed, eff, sludge, target) ==
  LET e == MCSplitEff(x, mixed, eff)
  IN [eff |-> e, sludge |-> sludge, y |-> MCResidual(sludge, target)]
_mc_at_split(x, mixed, eff, sludge, target) ==
  LET e == MCSplitEff(x, mixed, eff)
      s == MCSplitSludge(mixed, e, sludge)
  IN [eff |-> e, sludge |-> s, y |-> MCResidual(s, target)]

\* the moisture of the sludge the unit would leave at split x/G of the inlets
MoistureAt(ins, x, target) ==
  LET m == MixFrom(ins)
  IN _mc_at_split(x, RemoveFlow(m, Solids), SHZero, CopyFlow(SHZero, m, Solids), target).y

\* the target has a root strictly inside (0, 1) ...
RealRoot(ins, target) ==
  /\ SolidsMass(MixFrom(ins)) > 0
  /\ MoistureAt(ins, 0, target) > 0
\* ... and then the root is a point of the grid
OnGrid(ins, target) ==
  RealRoot(ins, target) => \E x \in 1..(G - 1) : MoistureAt(ins, x, target) = 0

\* the sludge_moisture values tried, as fractions n/d
Targets ==
  {[n |-> 1, d |-> 3], [n |-> 1, d |-> 5], [n |-> 1, d |-> 9],
   [n |-> 7, d |-> 15], [n |-> 1, d |-> 2], [n |-> 3, d |-> 4]}

\* inlets and a target: something flows in, and a root of the objective,
\* where there is one, is a point of the grid
SHInputs ==
  {i \in [ins : [1..2 -> SHStreams], T : SHTemps, target : Targets] :
     /\ SH_F_mass(MixFrom(i.ins)) > 0
     /\ OnGrid(i.ins, i.target)}

\* one thing differs between a and b: the target, the temperature, or one
\* component flow of one inlet
OneDiff(a, b) ==
  Cardinality({<<j, c>> \in (1..2) \X SHComps : a.ins[j][c] # b.ins[j][c]})
    + (IF a.T # b.T THEN 1 ELSE 0)
    + (IF a.target # b.target THEN 1 ELSE 0) = 1

\* the unit after __init__: empty outlets, _mixed a copy of ins[0]
SHNew(i) ==
  [pc |-> "idle", ins |-> i.ins, T |-> i.T, sludge_moisture |-> i.target,
   mixed |-> i.ins[1], eff |-> SHZero, sludge |-> SHZero,
   effT |-> 0, sludgeT |-> 0, x0 |-> 0, x1 |-> 0, x |-> 0,
   err |-> "none", runs |-> 0, changes |-> 0]

SHIdle == SHNew([ins |-> [j \in 1..2 |-> SHZero], T |-> 298, target |-> [n |-> 1, d |-> 2]])

\* SludgeHandling._run up to the call of the solver
SH_Begin ==
  /\ sh.pc \in {"idle", "done", "failed"}
  /\ sh.runs < MaxRuns
  /\ LET m == MixFrom(sh.ins)
     IN sh' = [sh EXCEPT !.pc = "eval0",
                         !.effT = sh.T, !.sludgeT = sh.T,
                         !.sludge = CopyFlow(sh.sludge, m, Solids),
                         !.mixed = RemoveFlow(m, Solids),
                         !.eff = CopyFlow(sh.eff, RemoveFlow(m, Solids), Solubles),
                         !.x0 = X0, !.x1 = X1, !.x = 0,
                         !.err = "none", !.runs = sh.runs + 1]
  /\ UNCHANGED sepVars

\* IQ_interpolation: y0 = f(x0); a residual within ytol returns x0
SH_Eval0 ==
  /\ sh.pc = "eval0"
  /\ LET r == _mc_at_split(sh.x0, sh.mixed, sh.eff, sh.sludge, sh.sludge_moisture)
     IN sh' = [sh EXCEPT !.eff = r.eff, !.sludge = r.sludge, !.x = sh.x0,
                         !.pc = IF r.y = 0 THEN "done" ELSE IF r.y > 0 THEN "eval1p" ELSE "eval1n"]
  /\ UNCHANGED sepVars

\* y1 = f(x1); a residual within ytol returns x1; with y1 < 0 the ends are
\* swapped; checkbounds=False: the signs of y0 and y1 are not compared
SH_Eval1 ==
  /\ sh.pc \in {"eval1p", "eval1n"}
  /\ LET r == _mc_at_split(sh.x1, sh.mixed, sh.eff, sh.sludge, sh.sludge_moisture)
     IN sh' = [sh EXCEPT !.eff = r.eff, !.sludge = r.sludge, !.x = sh.x1,
                         !.x0 = IF r.y < 0 THEN sh.x1 ELSE sh.x0,
                         !.x1 = IF r.y < 0 THEN sh.x0 ELSE sh.x1,
                         !.pc = IF r.y = 0 THEN "done" ELSE "iter"]
  /\ UNCHANGED sepVars

Between(a, b) == {x \in 0..G : (a < x /\ x < b) \/ (b < x /\ x < a)}

\* one iteration: the next iterate lies strictly inside the bracket; y > 0
\* moves x1, y < 0 moves x0, a residual within ytol returns
SH_Iter(x) ==
  /\ sh.pc = "iter"
  /\ x \in Between(sh.x0, sh.x1)
  /\ LET r == _mc_at_split(x, sh.mixed, sh.eff, sh.sludge, sh.sludge_moisture)
     IN sh' = [sh EXCEPT !.eff = r.eff, !.sludge = r.sludge, !.x = x,
                         !.x0 = IF r.y < 0 THEN x ELSE sh.x0,
                         !.x1 = IF r.y > 0 THEN x ELSE sh.x1,
                         !.pc = IF r.y = 0 THEN "done" ELSE "iter"]
  /\ UNCHANGED sepVars

\* a variant with checkiter=False: the last iterate is returned
SH_Exhaust_Return ==
  /\ sh.pc = "iter"
  /\ Between(sh.x0, sh.x1) = {}
  /\ sh' = [sh EXCEPT !.pc = "done"]
  /\ UNCHANGED sepVars
\* the iterations are used up without a residual within ytol (checkiter is
\* left at its default): RuntimeError out of _run
SH_Exhaust ==
  /\ sh.pc = "iter"
  /\ Between(sh.x0, sh.x1) = {}
  /\ sh' = [sh EXCEPT !.pc = "failed", !.err = "RuntimeError"]
  /\ UNCHANGED sepVars

\* between two runs the inlets or the attribute sludge_moisture change
SH_Change(i) ==
  /\ sh.pc \in {"done", "failed"}
  /\ sh.runs < MaxRuns
  /\ sh.changes < MaxChanges
  /\ OneDiff(i, [ins |-> sh.ins, T |-> sh.T, target |-> sh.sludge_moisture])
  /\ sh' = [sh EXCEPT !.pc = "idle", !.ins = i.ins, !.T = i.T,
                      !.sludge_moisture = i.target, !.changes = sh.changes + 1]
  /\ UNCHANGED sepVars

SolverStep == SH_Eval0 \/ SH_Eval1 \/ (\E x \in 0..G : SH_Iter(x)) \/ SH_Exhaust

\* -------------------------------------------------------- BeltThickener
\* max_capacity values tried, in the unit of the volumetric flow
Capacities == {G, G + G \div 2}
\* power_demand=4.1 kW, in tenths of a kW
PowerDemand == 41
\* `self.baseline_purchase_costs['Thickeners'] = 4000 * N`
UnitPrice == 4000
\* `self.F_BM['Thickeners'] = 1.7`, in tenths
BareModuleFactor == 17

\* self._mixed.F_vol
SH_F_vol(m) == SH_F_mass(m)
\* math.ceil of a / b, for a >= 0 and b > 0
Ceil(a, b) == (a + b - 1) \div b

\* an attribute of the instance: not assigned yet, or holding a number
NoAttr == [set |-> FALSE, v |-> 0]
Attr(v) == [set |-> TRUE, v |-> v]

\* BeltThickener.__init__: SludgeHandling.__init__, then max_capacity and
\* power_demand; no attribute _N and no attribute _N_thickener is assigned
BTNew(i, cap) ==
  SHNew(i) @@
  [max_capacity |-> cap, power_demand |-> PowerDemand,
   _N |-> NoAttr, _N_thickener |-> NoAttr,
   design_results |-> NoAttr, F_BM |-> NoAttr,
   baseline_purchase_costs |-> NoAttr, power_rate |-> NoAttr,
   read |-> [kind |-> "none", v |-> 0]]

\* BeltThickener._design, called once _run has returned
BT_Design ==
  /\ sh.pc = "done"
  /\ LET N == Ceil(SH_F_vol(sh.mixed), sh.max_capacity)
     IN sh' = [sh EXCEPT !._N_thickener = Attr(N),
                         !.design_results = Attr(N),
                         !.F_BM = Attr(BareModuleFactor),
                         !.baseline_purchase_costs = Attr(UnitPrice * N),
                         !.power_rate = Attr(sh.power_demand * N),
                         !.read = [kind |-> "none", v |-> 0]]
  /\ UNCHANGED sepVars

\* the property N_thickener: `return self._N`; reading an attribute that
\* was never assigned raises AttributeError
N_thickener(u) ==
  IF u._N.set THEN [kind |-> "value", v |-> u._N.v]
  ELSE [kind |-> "AttributeError", v |-> 0]

\* a caller reads unit.N_thickener between two runs
BT_ReadN ==
  /\ sh.pc \in {"idle", "done", "failed"}
  /\ sh.read.kind = "none"
  /\ sh' = [sh EXCEPT !.read = N_thickener(sh)]
  /\ UNCHANGED sepVars

\* ------------------------------------------------------- specifications
Init ==
  /\ InitSeparator
  /\ sh = SHIdle

Next ==
  \/ \E a \in SplitInputs, b \in SettledInputs : Construct(a, b)
  \/ \E i \in SplitInputs : SetSplit(i)
  \/ \E k \in Fracs : SetSettledFrac(k)
  \/ \E m \in Influents, cod \in CODInputs : SetInfluent(m, cod)
  \/ \E zd \in {"raise", "nonfinite"} : Run(zd)

\* the SludgeSeparator and its streams
Spec == Init /\ [][Next]_vars

InitSH ==
  /\ InitSeparator
  /\ wasteMass = ZeroMass
  /\ wasteCOD = NoneV
  /\ \E i \in SHInputs : i.T = 298 /\ sh = SHNew(i)

NextSH ==
  \/ SH_Begin
  \/ SH_Eval0
  \/ SH_Eval1
  \/ \E x \in 0..G : SH_Iter(x)
  \/ SH_Exhaust
  \/ \E i \in SHInputs : SH_Change(i)

\* the SludgeHandling unit; a solver that was called runs on to its end
SpecSH == InitSH /\ [][NextSH]_vars /\ WF_vars(SolverStep)

InitBT ==
  /\ InitSeparator
  /\ wasteMass = ZeroMass
  /\ wasteCOD = NoneV
  /\ \E i \in SHInputs, cap \in Capacities : i.T = 298 /\ sh = BTNew(i, cap)

NextBT ==
  \/ SH_Begin
  \/ SH_Eval0
  \/ SH_Eval1
  \/ \E x \in 0..G : SH_Iter(x)
  \/ SH_Exhaust
  \/ \E i \in SHInputs : SH_Change(i)
  \/ BT_Design
  \/ BT_ReadN

\* the BeltThickener: the SludgeHandling unit with its design
SpecBT == InitBT /\ [][NextBT]_vars /\ WF_vars(SolverStep)

\* ------------------------------------------------------------------ claims
\* a _run has just returned normally
RanOk == lastOp = "run" /\ err = "none"
\* the components a rule of the mapping sets in the retentate
SetBy(key) ==
  IF key = "TS" THEN {"OtherSS"}
  ELSE IF key = "N" THEN {"NH3", "NonNH3"}
  ELSE IF key \in Comps THEN {key}
  ELSE {}
SetByRules(items) == UNION {SetBy(items[i].key) : i \in 1..Len(items)}
NonWaterMass(m) == SumOver(m, NonWater)

\* C1: after a _run that returned, with a scalar or a mapping split, effluent
\* mass + retentate mass = influent mass for every non-water component.
C1_MassConservation ==
  RanOk => \A c \in NonWater : liqMass[c] + solMass[c] = wasteMass[c]

\* a second run with a mapping split that divides a component between the outlets
C1_Witness ==
  /\ RanOk /\ runs = 2 /\ split_type = "dict"
  /\ \E c \in NonWater : solMass[c] > 0 /\ liqMass[c] > 0

\* C2: after _adjust_solid_water, if settled_frac * influent total mass is less
\* than the retentate's non-water mass the retentate water is 0 and the warning
\* was emitted; otherwise the retentate water is the difference and there was
\* no warning.
C2_WaterClamp ==
  RanOk =>
    LET target == FracOf(settled_frac, F_mass(wasteMass))
        solids == NonWaterMass(solMass)
    IN IF target < solids
         THEN solMass[Water] = 0 /\ warned
         ELSE solMass[Water] = target - solids /\ ~warned

\* the clamp happened in a second run
C2_WitnessClamped ==
  /\ RanOk /\ runs = 2 /\ warned /\ solMass[Water] = 0
  /\ FracOf(settled_frac, F_mass(wasteMass)) < NonWaterMass(solMass)

\* C3 (as claimed): after the water balance the effluent water is >= 0.
C3_EffluentWaterNonNegative ==
  RanOk => liqMass[Water] >= 0

\* the mapping has an 'N' rule and no later rule overwrites a nitrogen species
NRuleStands(items) ==
  \E i \in 1..Len(items) :
    /\ items[i].key = "N"
    /\ \A j \in (i + 1)..Len(items) : items[j].key \notin {"NH3", "NonNH3"}
NFrac(items) == (CHOOSE it \in {items[i] : i \in 1..Len(items)} : it.key = "N").frac

\* C4: for the 'N' rule with fraction f and influent nitrogen (a, o), the
\* retentate holds 0 <= a_ret <= a, 0 <= o_ret <= o and a_ret + o_ret = f*(a+o).
C4_NitrogenAllocation ==
  (RanOk /\ split_type = "dict" /\ NRuleStands(split.items)) =>
    /\ 0 <= solMass["NH3"] /\ solMass["NH3"] <= wasteMass["NH3"]
    /\ 0 <= solMass["NonNH3"] /\ solMass["NonNH3"] <= wasteMass["NonNH3"]
    /\ solMass["NH3"] + solMass["NonNH3"] =
         FracOf(NFrac(split.items), wasteMass["NH3"] + wasteMass["NonNH3"])

\* both species are present and both receive a share
C4_Witness ==
  /\ RanOk /\ split_type = "dict" /\ NRuleStands(split.items)
  /\ solMass["NH3"] > 0 /\ solMass["NonNH3"] > 0

\* C5 (as claimed): after a run with a mapping split, a non-water component
\* that no rule of the mapping sets has retentate mass 0.
C5_UnsetComponentsZero ==
  (RanOk /\ split_type = "dict") =>
    \A c \in NonWater \ SetByRules(split.items) : solMass[c] = 0

\* the strings of StrInputs that float() accepts, with their values
NumericStr(cs) == cs \in {<<"1">>, <<"0", ".", "0">>, <<" ", "1", ".">>}
NumericStrValue(cs) == IF cs = <<"0", ".", "0">> THEN 0 ELSE D

\* C6: a set of split to a value that is neither float-convertible nor a
\* mapping raises TypeError in the set and leaves _split and _split_type as
\* they were; a float-convertible value is stored with tag 'float', a mapping
\* with tag 'dict'.
C6_SplitSetter ==
  [][\A i \in SplitInputs : SetSplit(i) =>
       IF i.kind = "num" \/ (i.kind = "str" /\ NumericStr(i.chars))
         THEN /\ err' = "none" /\ split_type' = "float"
              /\ split' = NumVal(IF i.kind = "num" THEN i.num
                                 ELSE NumericStrValue(i.chars))
       ELSE IF i.kind = "dict"
         THEN err' = "none" /\ split_type' = "dict" /\ split' = i
       ELSE err' = "TypeError" /\ split' = split /\ split_type' = split_type]_vars

\* a rejected set that left a stored mapping in place
C6_Witness ==
  lastOp = "set_split" /\ err = "TypeError" /\ split_type = "dict"

UnknownKey(items) ==
  \E i \in 1..Len(items) : items[i].key \notin Categories \cup Comps

C10_CtorKeepsSuppliedValues ==
  [][\A a \in SplitInputs, b \in SettledInputs :
       (Construct(a, b) /\ pc' = "ready") =>
         /\ a.kind = "num" => (split' = a /\ split_type' = "float")
         /\ a.kind = "dict" => (split' = a /\ split_type' = "dict")
         /\ b.kind = "num" => settled_frac' = b.num]_vars


\* ---- SludgeHandling
\* _run has called the solver on the present inlets and target
Solving == sh.pc \in {"eval0", "eval1p", "eval1n", "iter"}
Y0 == MoistureAt(sh.ins, X0, sh.sludge_moisture)
Y1 == MoistureAt(sh.ins, X1, sh.sludge_moisture)
\* the objective has one sign over the whole bracket
NoSignChange == (Y0 > 0 /\ Y1 > 0) \/ (Y0 < 0 /\ Y1 < 0)
\* the target lies between the moistures at the two ends of the bracket
InBracket == Y0 >= 0 /\ Y1 =< 0
\* the target lies strictly between the moistures at x -> 0 and at x -> 1
StrictlyAchievable == RealRoot(sh.ins, sh.sludge_moisture)
Returned == sh.pc = "done" /\ sh.err = "none"
Failed == sh.pc = "failed" /\ sh.err = "RuntimeError"
\* the sludge stream's water mass fraction is the target
OnTarget == \E s \in {sh.sludge} : MCResidual(s, sh.sludge_moisture) = 0
\* the outlets hold the flows of the split sh.x / G of the present inlets
FinalSplitFlows ==
  LET m == MixFrom(sh.ins) IN
  \A c \in SHComps :
    IF c \in Solids
      THEN sh.sludge[c] = m[c] /\ sh.eff[c] = 0
      ELSE sh.eff[c] = (m[c] * sh.x) \div G /\ sh.sludge[c] = m[c] - sh.eff[c]

\* C8: with a target moisture that no split of the bracket [1e-3, 1-1e-3]
\* reaches (the objective keeps one sign over the bracket), _run ends with a
\* failure; and _run never returns with a sludge stream whose water mass
\* fraction differs from the target.
C8_ExplicitFailure ==
  /\ [](Returned => OnTarget)
  /\ ((Solving /\ NoSignChange) ~> Failed)
C8_Witness == Failed /\ NoSignChange /\ ~OnTarget

\* C9 as stated: with a target strictly between the moisture at x -> 0 and
\* at x -> 1, _run returns with the outlets at the final split and the sludge
\* on target.
C9_ConvergesWhenAchievable ==
  (Solving /\ StrictlyAchievable) ~> (Returned /\ OnTarget /\ FinalSplitFlows)

\* C9 amended: with a target between the moistures at the two ends of the
\* bracket, x = 1e-3 and x = 1 - 1e-3, _run returns with the outlets at the
\* final split and the sludge on target; a target strictly between the
\* moisture at x -> 0 and at x -> 1 but outside that range ends in a failure.
C9_ConvergesInBracket ==
  /\ ((Solving /\ InBracket) ~> (Returned /\ OnTarget /\ FinalSplitFlows))
  /\ ((Solving /\ StrictlyAchievable /\ ~InBracket) ~> Failed)
C9_Witness ==
  /\ Returned /\ OnTarget /\ InBracket /\ StrictlyAchievable
  /\ X0 < sh.x /\ sh.x < X1
C9_WitnessSliver == Failed /\ StrictlyAchievable /\ ~InBracket



\* _mc_at_split has been evaluated in the present run, at the split sh.x / G
Evaluated == sh.pc \in {"eval1p", "eval1n", "iter", "done", "failed"}

\* C11: after _run, and after every evaluation of _mc_at_split at a split x,
\* the sludge holds all of every solid of the mixed inlets and the effluent
\* none of it, the effluent holds x times every soluble of the mixed inlets
\* and the sludge the rest, so that effluent + sludge is the mixed inlet for
\* every component; earlier runs of the unit do not change this.
C11_Partition ==
  Evaluated =>
    LET m == MixFrom(sh.ins) IN
    /\ \A c \in Solids : sh.sludge[c] = m[c] /\ sh.eff[c] = 0
    /\ \A c \in Solubles :
         /\ sh.eff[c] * G = sh.x * m[c]
         /\ sh.sludge[c] = m[c] - sh.eff[c]
    /\ \A c \in SHComps : sh.eff[c] + sh.sludge[c] = m[c]
\* a second run, on changed inlets or target, has returned at a split inside
\* the bracket with solids, water and salt in the inlets
C11_Witness ==
  /\ Returned /\ sh.runs = 2 /\ sh.changes = 1
  /\ X0 < sh.x /\ sh.x < X1
  /\ \A c \in SHComps : MixFrom(sh.ins)[c] > 0



\* ---- SludgeSeparator, the 'COD' rule
\* the mapping holds the key 'COD' and the last run applied its rule
CODRuleStands(items) ==
  /\ \E i \in 1..Len(items) : items[i].key = "COD"
  /\ ~UnknownKey(items)
CODFrac(items) ==
  items[CHOOSE i \in 1..Len(items) : items[i].key = "COD"].frac
\* influent oxygen demand times influent volumetric flow
CODLoad == RMul(InfluentCOD(wasteMass, wasteCOD), RInt(F_vol(wasteMass)))
\* the influent and both outlets flow, so that every division is defined,
\* and no outlet holds a negative mass
AllFlow ==
  /\ \A c \in Comps : solMass[c] >= 0 /\ liqMass[c] >= 0
  /\ F_vol(wasteMass) > 0
  /\ F_vol(solMass) > 0
  /\ F_vol(liqMass) > 0

\* C12: for a mapping split with the key 'COD' and a fraction f in [0, 1], 0
\* and 1 included, after _run the COD stored on the retentate times the
\* retentate's volumetric flow is f times the influent load, and the COD
\* stored on the effluent times the effluent's volumetric flow is the rest of
\* the load, the volumetric flows being those left by the water balance.
C12_CODLoads ==
  (RanOk /\ split_type = "dict" /\ CODRuleStands(split.items) /\ AllFlow) =>
    LET s_load == RMul(Rat(CODFrac(split.items), D), CODLoad) IN
    /\ RMul(solCOD, RInt(F_vol(solMass))) = s_load
    /\ RMul(liqCOD, RInt(F_vol(liqMass))) = RSub(CODLoad, s_load)



\* ---- BeltThickener
\* C13: once _design has run, the property N_thickener returns the number of
\* thickeners that design computed, the value stored in
\* design_results['Number of thickners'].
C13_NThickenerReturnsDesign ==
  (sh._N_thickener.set /\ sh.read.kind # "none") =>
    /\ sh.read.kind = "value"
    /\ sh.read.v = sh._N_thickener.v
    /\ sh.read.v = sh.design_results.v


====
